---- MODULE Spec2Model ----
(***************************************************************************)
(* Beach accommodation finder: the submit handler of app.py and the stages *)
(* it runs (input_processing.py, backend_execution.py, utils.py).          *)
(*                                                                         *)
(* Conventions of the model                                                *)
(*  - A Python dict is a function whose DOMAIN is the set of keys present. *)
(*  - A returned pair (value, error) is a record that has the field of     *)
(*    each component that is not None: [elements |-> e] is (e, None),      *)
(*    [error |-> m] is (None, m).                                          *)
(*  - An f-string is a record of its template and its interpolated values. *)
(*  - Free text typed by the user is a sequence of characters; a character *)
(*    is written in Telex ASCII ("ee" is e-circumflex, "aj" a-dot-below).  *)
(*  - Coordinates are integers, in metres of arc (1 unit = 1/6371000 rad), *)
(*    relative to the equator and the target's meridian.  Distances are    *)
(*    metres (the code's kilometres times 1000) and scores are hundredths  *)
(*    of a point after rounding, thousandths before.                       *)
(***************************************************************************)
EXTENDS Integers, Sequences, FiniteSets, TLC

VARIABLES
    pc,              \* the statement the run is at
    location_input,  \* form fields (app.py 106-129)
    budget_input,
    type_input,
    ambiance_input,
    cleaned_location,
    geo_data,
    filters,         \* result of normalize_filters
    search_request,  \* result of build_search_request
    server,          \* index of the endpoint the for loop is at (1-based)
    last_error,      \* search_accommodations' local
    result,          \* the (value, error) pair the last retrieval returned
    log,             \* outbound calls and sleeps, in the order they happen
    accs,            \* the Accommodation dicts, by object identity (index)
    normalized,      \* lists of references into accs
    filtered,
    ranked,
    stop             \* where st.stop() was called, "" when it was not

vars == <<pc, location_input, budget_input, type_input, ambiance_input,
          cleaned_location, geo_data, filters, search_request, server,
          last_error, result, log, accs, normalized, filtered, ranked, stop>>

formVars == <<location_input, budget_input, type_input, ambiance_input>>
stageVars == <<accs, normalized, filtered, ranked>>

None == [none |-> TRUE]

Get(d, k, default) == IF k \in DOMAIN d THEN d[k] ELSE default

Range(s) == {s[i] : i \in 1..Len(s)}

Max(a, b) == IF a >= b THEN a ELSE b

Min(a, b) == IF a <= b THEN a ELSE b

(***************************************************************************)
(* search_accommodations (backend_execution.py 16-100)                     *)
(***************************************************************************)

\* A URL is kept split at "/", as server_url.split('/') yields it.
overpass_servers ==
    << <<"https:", "", "overpass-api.de", "api", "interpreter">>,
       <<"https:", "", "overpass.kumi.systems", "api", "interpreter">>,
       <<"https:", "", "overpass.openstreetmap.ru", "api", "interpreter">> >>

\* server_url.split('/')[2]
Host(server_url) == server_url[3]

\* Raw records a mirror can answer with.
El(id, lat, lon, tags) == [id |-> id, lat |-> lat, lon |-> lon, tags |-> tags]

RecHotelA == El(1, 0, 0, [name |-> "A", tourism |-> "hotel"])
RecGuestB == El(2, 0, 1200, [name |-> "B", tourism |-> "guest_house", amenity |-> "quiet"])
RecFarC == El(3, 5001, 0, [name |-> "C", tourism |-> "hotel"])
\* a way: no lat, no lon
RecWayA == [id |-> 4, tags |-> [name |-> "A", tourism |-> "hostel"]]
RecNoTags == [id |-> 5, lat |-> 0, lon |-> 0]
\* 5000 m from the target
RecEdgeA == El(6, 3000, 4000, [name |-> "A", tourism |-> "hotel", amenity |-> "quiet",
                               building |-> "quiet"])
RecStreetA == El(7, 0, 4999, ("addr:street" :> "A") @@ [tourism |-> "guest_house"])
RecBare == El(8, 0, 0, [tourism |-> "hotel", amenity |-> "quiet", building |-> "beachfront"])
RecBestD == El(9, 0, 0, [name |-> "D", tourism |-> "hotel", amenity |-> "quiet",
                         building |-> "beachfront"])
RecEmptyTags == [lat |-> 0, lon |-> 100, tags |-> <<>>]
RecNoLon == [id |-> 11, lat |-> 0, tags |-> [name |-> "B"]]

RawCatalogue ==
    { RecHotelA, RecGuestB, RecFarC, RecWayA, RecNoTags, RecEdgeA, RecStreetA,
      RecBare, RecBestD, RecEmptyTags, RecNoLon }

ElementLists == { <<RecHotelA, RecGuestB>>, <<RecWayA, RecFarC>> }

\* What one requests.post can come to: a response with a status and a body,
\* or an exception.  A body is a JSON object, or JSON that is no object.
Replies ==
       { [kind |-> "response", status_code |-> 200, json |-> [elements |-> els]] :
            els \in ElementLists \cup {<<>>} }
  \cup { [kind |-> "response", status_code |-> 200, json |-> [remark |-> "runtime error"]],
         [kind |-> "response", status_code |-> 200, number |-> 5] }
  \cup { [kind |-> "response", status_code |-> s] : s \in {429, 504, 500, 404} }
  \cup { [kind |-> "Timeout"],
         [kind |-> "RequestException", str |-> "connection refused"] }

\* Attempt, with a 200 answer taken as the result whatever it holds.
AttemptAnyBody(server_url, reply, prev_error) ==
    LET host == Host(server_url)
        cont(err, sleeps) ==
            [returned |-> FALSE, last_error |-> err, sleeps |-> sleeps]
    IN  IF reply.kind = "Timeout"
        THEN cont([text |-> "Server {host} timeout", host |-> host], <<>>)
        ELSE IF reply.kind = "RequestException"
        THEN cont([text |-> "Loi ket noi {host}: {e}", host |-> host,
                   e |-> reply.str], <<>>)
        ELSE IF reply.status_code = 200
        THEN IF "json" \notin DOMAIN reply
             THEN cont([text |-> "Loi khong xac dinh: {e}",
                        e |-> "argument of type 'int' is not iterable"], <<>>)
             ELSE IF "elements" \in DOMAIN reply.json
             THEN [returned |-> TRUE, elements |-> reply.json.elements,
                   last_error |-> prev_error, sleeps |-> <<>>]
             ELSE cont([text |-> "Server {host} khong tra ve ket qua",
                        host |-> host], <<>>)
        ELSE IF reply.status_code = 504 \/ reply.status_code = 429
        THEN cont([text |-> "Server {host} qua tai (HTTP {status})",
                   host |-> host, status |-> reply.status_code], <<2>>)
        ELSE cont([text |-> "Server {host} tra ve loi HTTP {status}",
                   host |-> host, status |-> reply.status_code], <<>>)

\* Attempt, with the first failure reason kept instead of the last.
AttemptKeepFirst(server_url, reply, prev_error) ==
    LET host == Host(server_url)
        cont(err, sleeps) ==
            [returned |-> FALSE,
             last_error |-> IF prev_error = None THEN err ELSE prev_error,
             sleeps |-> sleeps]
    IN  IF reply.kind = "Timeout"
        THEN cont([text |-> "Server {host} timeout", host |-> host], <<>>)
        ELSE IF reply.kind = "RequestException"
        THEN cont([text |-> "Loi ket noi {host}: {e}", host |-> host,
                   e |-> reply.str], <<>>)
        ELSE IF reply.status_code = 200
        THEN IF "json" \notin DOMAIN reply
             THEN cont([text |-> "Loi khong xac dinh: {e}",
                        e |-> "argument of type 'int' is not iterable"], <<>>)
             ELSE IF "elements" \in DOMAIN reply.json /\ Len(reply.json.elements) > 0
             THEN [returned |-> TRUE, elements |-> reply.json.elements,
                   last_error |-> prev_error, sleeps |-> <<>>]
             ELSE cont([text |-> "Server {host} khong tra ve ket qua",
                        host |-> host], <<>>)
        ELSE IF reply.status_code = 504 \/ reply.status_code = 429
        THEN cont([text |-> "Server {host} qua tai (HTTP {status})",
                   host |-> host, status |-> reply.status_code], <<2>>)
        ELSE cont([text |-> "Server {host} tra ve loi HTTP {status}",
                   host |-> host, status |-> reply.status_code], <<>>)

\* Attempt, with the pause taken after every status that is not 200.
AttemptPauseAlways(server_url, reply, prev_error) ==
    LET host == Host(server_url)
        cont(err, sleeps) ==
            [returned |-> FALSE, last_error |-> err, sleeps |-> sleeps]
    IN  IF reply.kind = "Timeout"
        THEN cont([text |-> "Server {host} timeout", host |-> host], <<>>)
        ELSE IF reply.kind = "RequestException"
        THEN cont([text |-> "Loi ket noi {host}: {e}", host |-> host,
                   e |-> reply.str], <<>>)
        ELSE IF reply.status_code = 200
        THEN IF "json" \notin DOMAIN reply
             THEN cont([text |-> "Loi khong xac dinh: {e}",
                        e |-> "argument of type 'int' is not iterable"], <<>>)
             ELSE IF "elements" \in DOMAIN reply.json /\ Len(reply.json.elements) > 0
             THEN [returned |-> TRUE, elements |-> reply.json.elements,
                   last_error |-> prev_error, sleeps |-> <<>>]
             ELSE cont([text |-> "Server {host} khong tra ve ket qua",
                        host |-> host], <<>>)
        ELSE IF reply.status_code = 504 \/ reply.status_code = 429
        THEN cont([text |-> "Server {host} qua tai (HTTP {status})",
                   host |-> host, status |-> reply.status_code], <<2>>)
        ELSE cont([text |-> "Server {host} tra ve loi HTTP {status}",
                   host |-> host, status |-> reply.status_code], <<2>>)

\* Attempt, with no pause after an overloaded endpoint.
AttemptNoPause(server_url, reply, prev_error) ==
    LET host == Host(server_url)
        cont(err, sleeps) ==
            [returned |-> FALSE, last_error |-> err, sleeps |-> sleeps]
    IN  IF reply.kind = "Timeout"
        THEN cont([text |-> "Server {host} timeout", host |-> host], <<>>)
        ELSE IF reply.kind = "RequestException"
        THEN cont([text |-> "Loi ket noi {host}: {e}", host |-> host,
                   e |-> reply.str], <<>>)
        ELSE IF reply.status_code = 200
        THEN IF "json" \notin DOMAIN reply
             THEN cont([text |-> "Loi khong xac dinh: {e}",
                        e |-> "argument of type 'int' is not iterable"], <<>>)
             ELSE IF "elements" \in DOMAIN reply.json /\ Len(reply.json.elements) > 0
             THEN [returned |-> TRUE, elements |-> reply.json.elements,
                   last_error |-> prev_error, sleeps |-> <<>>]
             ELSE cont([text |-> "Server {host} khong tra ve ket qua",
                        host |-> host], <<>>)
        ELSE IF reply.status_code = 504 \/ reply.status_code = 429
        THEN cont([text |-> "Server {host} qua tai (HTTP {status})",
                   host |-> host, status |-> reply.status_code], <<>>)
        ELSE cont([text |-> "Server {host} tra ve loi HTTP {status}",
                   host |-> host, status |-> reply.status_code], <<>>)

\* One iteration of the for loop (lines 55-97) on one reply: whether the
\* function returns, the elements it returns, the new last_error, and the
\* sleeps it takes.
Attempt(server_url, reply, prev_error) ==
    LET host == Host(server_url)
        cont(err, sleeps) ==
            [returned |-> FALSE, last_error |-> err, sleeps |-> sleeps]
    IN  IF reply.kind = "Timeout"
        THEN cont([text |-> "Server {host} timeout", host |-> host], <<>>)
        ELSE IF reply.kind = "RequestException"
        THEN cont([text |-> "Loi ket noi {host}: {e}", host |-> host,
                   e |-> reply.str], <<>>)
        ELSE IF reply.status_code = 200
        THEN IF "json" \notin DOMAIN reply
             THEN \* 'elements' in data raises TypeError: except Exception
                  cont([text |-> "Loi khong xac dinh: {e}",
                        e |-> "argument of type 'int' is not iterable"], <<>>)
             ELSE IF "elements" \in DOMAIN reply.json /\ Len(reply.json.elements) > 0
             THEN [returned |-> TRUE, elements |-> reply.json.elements,
                   last_error |-> prev_error, sleeps |-> <<>>]
             ELSE cont([text |-> "Server {host} khong tra ve ket qua",
                        host |-> host], <<>>)
        ELSE IF reply.status_code = 504 \/ reply.status_code = 429
        THEN cont([text |-> "Server {host} qua tai (HTTP {status})",
                   host |-> host, status |-> reply.status_code], <<2>>)
        ELSE cont([text |-> "Server {host} tra ve loi HTTP {status}",
                   host |-> host, status |-> reply.status_code], <<>>)

Post(server_url, reply) ==
    [op |-> "post", url |-> server_url, timeout |-> 25, reply |-> reply]

Sleep(secs) == [op |-> "sleep", secs |-> secs]

Sleeps(secs) == [k \in 1..Len(secs) |-> Sleep(secs[k])]

\* Lines 55-97: the next endpoint of the list is tried.
TryServer ==
    /\ pc = "search"
    /\ server <= Len(overpass_servers)
    /\ \E reply \in Replies :
         LET url == overpass_servers[server]
             a == Attempt(url, reply, last_error)
         IN  /\ log' = log \o <<Post(url, reply)>> \o Sleeps(a.sleeps)
             /\ last_error' = a.last_error
             /\ IF a.returned
                THEN /\ result' = [elements |-> a.elements]
                     /\ pc' = "search_returned"
                     /\ server' = server
                ELSE /\ server' = server + 1
                     /\ UNCHANGED <<result, pc>>
    /\ UNCHANGED <<formVars, cleaned_location, geo_data, filters,
                   search_request, stageVars, stop>>

\* Line 100: every endpoint was tried and none returned.
SearchExhausted ==
    /\ pc = "search"
    /\ server > Len(overpass_servers)
    /\ result' = [error |-> [text |-> "Khong the ket noi Overpass API. Loi cuoi: {last_error}",
                             last_error |-> last_error]]
    /\ pc' = "search_returned"
    /\ UNCHANGED <<formVars, cleaned_location, geo_data, filters,
                   search_request, server, last_error, log, stageVars, stop>>

(***************************************************************************)
(* Text: str.lower, str.strip, str.replace, str.split                      *)
(***************************************************************************)

Whitespace == {" ", "\t"}

\* Upper-case characters of the alphabet the dictionaries are written in.
Lowercase ==
    ("A" :> "a") @@
    ("Aaf" :> "aaf") @@
    ("Af" :> "af") @@
    ("Aj" :> "aj") @@
    ("As" :> "as") @@
    ("Aws" :> "aws") @@
    ("Ax" :> "ax") @@
    ("B" :> "b") @@
    ("C" :> "c") @@
    ("D" :> "d") @@
    ("DD" :> "dd") @@
    ("E" :> "e") @@
    ("Ee" :> "ee") @@
    ("Eej" :> "eej") @@
    ("Eer" :> "eer") @@
    ("Ej" :> "ej") @@
    ("Er" :> "er") @@
    ("F" :> "f") @@
    ("G" :> "g") @@
    ("H" :> "h") @@
    ("I" :> "i") @@
    ("If" :> "if") @@
    ("Ir" :> "ir") @@
    ("Ix" :> "ix") @@
    ("J" :> "j") @@
    ("K" :> "k") @@
    ("L" :> "l") @@
    ("M" :> "m") @@
    ("N" :> "n") @@
    ("O" :> "o") @@
    ("Oj" :> "oj") @@
    ("Oo" :> "oo") @@
    ("Ooj" :> "ooj") @@
    ("Owf" :> "owf") @@
    ("P" :> "p") @@
    ("Q" :> "q") @@
    ("R" :> "r") @@
    ("S" :> "s") @@
    ("T" :> "t") @@
    ("U" :> "u") @@
    ("Us" :> "us") @@
    ("Uw" :> "uw") @@
    ("Uwj" :> "uwj") @@
    ("V" :> "v") @@
    ("W" :> "w") @@
    ("X" :> "x") @@
    ("Y" :> "y") @@
    ("Ys" :> "ys") @@
    ("Z" :> "z")

LowerChar(c) == IF c \in DOMAIN Lowercase THEN Lowercase[c] ELSE c

\* s.lower()
lower(s) == [i \in 1..Len(s) |-> LowerChar(s[i])]

\* s.strip()
strip(s) ==
    LET keep == {i \in 1..Len(s) : s[i] \notin Whitespace}
    IN  IF keep = {} THEN <<>>
        ELSE SubSeq(s, CHOOSE i \in keep : \A j \in keep : i <= j,
                       CHOOSE i \in keep : \A j \in keep : i >= j)

\* s.replace(old, new), old a single character
replace(s, old, new) == [i \in 1..Len(s) |-> IF s[i] = old THEN new ELSE s[i]]

RECURSIVE SplitWords(_, _)
SplitWords(s, word) ==
    IF s = <<>>
    THEN IF word = <<>> THEN <<>> ELSE <<word>>
    ELSE IF Head(s) \in Whitespace
    THEN (IF word = <<>> THEN <<>> ELSE <<word>>) \o SplitWords(Tail(s), <<>>)
    ELSE SplitWords(Tail(s), Append(word, Head(s)))

\* s.split(): the maximal runs of non-whitespace characters
split(s) == SplitWords(s, <<>>)

\* dict.get(key, default) on a dict written as its set of (key, value) items
DictGet(items, key, default) ==
    IF \E it \in items : it[1] = key
    THEN (CHOOSE it \in items : it[1] = key)[2]
    ELSE default

(***************************************************************************)
(* normalize_filters, build_search_request (input_processing.py 153-260)   *)
(***************************************************************************)

budget_map ==
    {
      <<<<"r", "er">>, "low">>,
      <<<<"g", "i", "as", " ", "r", "er">>, "low">>,
      <<<<"c", "h", "e", "a", "p">>, "low">>,
      <<<<"b", "if", "n", "h", " ", "t", "h", "uw", "owf", "n", "g">>, "medium">>,
      <<<<"t", "r", "u", "n", "g", " ", "b", "if", "n", "h">>, "medium">>,
      <<<<"n", "o", "r", "m", "a", "l">>, "medium">>,
      <<<<"c", "a", "o">>, "high">>,
      <<<<"dd", "aws", "t">>, "high">>,
      <<<<"s", "a", "n", "g", " ", "t", "r", "oj", "n", "g">>, "high">>,
      <<<<"l", "u", "x", "u", "r", "y">>, "high">>
    }

type_map ==
    {
      <<<<"h", "o", "m", "e", "s", "t", "a", "y">>, "guest_house">>,
      <<<<"n", "h", "af", " ", "n", "g", "h", "ir">>, "guest_house">>,
      <<<<"k", "h", "as", "c", "h", " ", "s", "aj", "n">>, "hotel">>,
      <<<<"h", "o", "t", "e", "l">>, "hotel">>,
      <<<<"r", "e", "s", "o", "r", "t">>, "resort">>,
      <<<<"v", "i", "l", "l", "a">>, "chalet">>,
      <<<<"b", "i", "eej", "t", " ", "t", "h", "uwj">>, "chalet">>,
      <<<<"h", "o", "s", "t", "e", "l">>, "hostel">>,
      <<<<"k", "ys", " ", "t", "us", "c", " ", "x", "as">>, "hostel">>
    }

ambiance_map ==
    {
      <<<<"y", "ee", "n", " ", "t", "ix", "n", "h">>, "quiet">>,
      <<<<"q", "u", "i", "e", "t">>, "quiet">>,
      <<<<"p", "e", "a", "c", "e", "f", "u", "l">>, "quiet">>,
      <<<<"s", "oo", "i", " ", "dd", "ooj", "n", "g">>, "lively">>,
      <<<<"l", "i", "v", "e", "l", "y">>, "lively">>,
      <<<<"v", "i", "b", "r", "a", "n", "t">>, "lively">>,
      <<<<"g", "aaf", "n", " ", "b", "i", "eer", "n">>, "beachfront">>,
      <<<<"b", "e", "a", "c", "h">>, "beachfront">>,
      <<<<"b", "e", "a", "c", "h", "f", "r", "o", "n", "t">>, "beachfront">>,
      <<<<"v", "i", "e", "w", " ", "dd", "ej", "p">>, "scenic">>,
      <<<<"s", "c", "e", "n", "i", "c">>, "scenic">>,
      <<<<"g", "i", "a", " ", "dd", "if", "n", "h">>, "family">>,
      <<<<"f", "a", "m", "i", "l", "y">>, "family">>,
      <<<<"r", "o", "m", "a", "n", "t", "i", "c">>, "romantic">>,
      <<<<"l", "ax", "n", "g", " ", "m", "aj", "n">>, "romantic">>
    }

\* Lines 222-225: the loop over the words, tags being the list built so far.
RECURSIVE AddTags(_, _)
AddTags(words, tags) ==
    IF words = <<>> THEN tags
    ELSE LET tag == DictGet(ambiance_map, lower(Head(words)), "")
         IN  IF tag # "" /\ tag \notin Range(tags)
             THEN AddTags(Tail(words), Append(tags, tag))
             ELSE AddTags(Tail(words), tags)

\* Lines 221: [w.strip() for w in ambiance_text.replace(',', ' ').split()]
AmbianceWords(ambiance_text) ==
    LET ws == split(replace(ambiance_text, ",", " "))
    IN  [i \in 1..Len(ws) |-> strip(ws[i])]

\* normalize_filters, with the budget and the type looked up as typed.
NormalizeFiltersAsTyped(budget_text, type_text, ambiance_text) ==
    [budget |-> DictGet(budget_map, budget_text, "medium"),
     type   |-> DictGet(type_map, type_text, "guest_house"),
     tags   |-> IF ambiance_text # <<>> /\ strip(ambiance_text) # <<>>
                THEN AddTags(AmbianceWords(ambiance_text), <<>>)
                ELSE <<>>]

normalize_filters(budget_text, type_text, ambiance_text) ==
    [budget |-> DictGet(budget_map, strip(lower(budget_text)), "medium"),
     type   |-> DictGet(type_map, strip(lower(type_text)), "guest_house"),
     tags   |-> IF ambiance_text # <<>> /\ strip(ambiance_text) # <<>>
                THEN AddTags(AmbianceWords(ambiance_text), <<>>)
                ELSE <<>>]

build_search_request(geo, f) ==
    [location_name |-> geo.name,
     lat |-> geo.lat,
     lon |-> geo.lon,
     budget |-> f.budget,
     type |-> f.type,
     tags |-> f.tags,
     radius |-> 5000,
     max_results |-> 10]


(***************************************************************************)
(* haversine_distance (utils.py 9-36)                                      *)
(***************************************************************************)

RECURSIVE SqrtBetween(_, _, _)
SqrtBetween(n, lo, hi) ==
    IF lo >= hi THEN lo
    ELSE LET mid == (lo + hi + 1) \div 2
         IN  IF mid * mid <= n THEN SqrtBetween(n, mid, hi)
             ELSE SqrtBetween(n, lo, mid - 1)

\* math.sqrt on the perfect squares the model's points give
Sqrt(n) == SqrtBetween(n, 0, Min(n, 46340))

\* With angles in metres of arc and every point within 10 km of the equator
\* and of the target, sin(x/2) is x/2 and cos(lat) is 1 to within one part in
\* a million, so radius * c is sqrt(dlat^2 + dlon^2) metres to within a
\* centimetre.  The points of the model have a whole number of metres here.
haversine_distance(lat1, lon1, lat2, lon2) ==
    LET dlat == lat2 - lat1
        dlon == lon2 - lon1
    IN  Sqrt(dlat * dlat + dlon * dlon)

(***************************************************************************)
(* normalize_osm_data (backend_execution.py 173-236)                       *)
(***************************************************************************)

\* NormalizeLoop, without the test of the names seen.
RECURSIVE NormalizeLoopNoDedup(_, _, _)
NormalizeLoopNoDedup(elements, accommodations, seen_names) ==
    IF elements = <<>> THEN accommodations
    ELSE
      LET element == Head(elements)
          rest == Tail(elements)
      IN
      IF "tags" \notin DOMAIN element
      THEN NormalizeLoopNoDedup(rest, accommodations, seen_names)
      ELSE
        LET tags == element.tags
            name == Get(tags, "name", Get(tags, "addr:street", "Unnamed"))
        IN
        IF "lat" \notin DOMAIN element \/ "lon" \notin DOMAIN element
        THEN NormalizeLoopNoDedup(rest, accommodations, seen_names)
        ELSE
          LET tourism_type == Get(tags, "tourism", "accommodation")
              acc_tags ==
                  <<tourism_type>>
                  \o (IF "amenity" \in DOMAIN tags THEN <<tags["amenity"]>> ELSE <<>>)
                  \o (IF "building" \in DOMAIN tags THEN <<tags["building"]>> ELSE <<>>)
              accommodation ==
                  [id |-> Get(element, "id", 0),
                   name |-> name,
                   location |-> <<element.lat, element.lon>>,
                   type |-> tourism_type,
                   tags |-> acc_tags,
                   score |-> 0,
                   distance |-> 0,
                   source |-> "osm"]
          IN  NormalizeLoopNoDedup(rest, Append(accommodations, accommodation),
                                   seen_names \cup {name})

\* NormalizeLoop, with the name put in seen_names as soon as it is read.
RECURSIVE NormalizeLoopReservesEarly(_, _, _)
NormalizeLoopReservesEarly(elements, accommodations, seen_names) ==
    IF elements = <<>> THEN accommodations
    ELSE
      LET element == Head(elements)
          rest == Tail(elements)
      IN
      IF "tags" \notin DOMAIN element
      THEN NormalizeLoopReservesEarly(rest, accommodations, seen_names)
      ELSE
        LET tags == element.tags
            name == Get(tags, "name", Get(tags, "addr:street", "Unnamed"))
        IN
        IF name \in seen_names
        THEN NormalizeLoopReservesEarly(rest, accommodations, seen_names)
        ELSE IF "lat" \notin DOMAIN element \/ "lon" \notin DOMAIN element
        THEN NormalizeLoopReservesEarly(rest, accommodations, seen_names \cup {name})
        ELSE
          LET tourism_type == Get(tags, "tourism", "accommodation")
              acc_tags ==
                  <<tourism_type>>
                  \o (IF "amenity" \in DOMAIN tags THEN <<tags["amenity"]>> ELSE <<>>)
                  \o (IF "building" \in DOMAIN tags THEN <<tags["building"]>> ELSE <<>>)
              accommodation ==
                  [id |-> Get(element, "id", 0),
                   name |-> name,
                   location |-> <<element.lat, element.lon>>,
                   type |-> tourism_type,
                   tags |-> acc_tags,
                   score |-> 0,
                   distance |-> 0,
                   source |-> "osm"]
          IN  NormalizeLoopReservesEarly(rest, Append(accommodations, accommodation),
                                         seen_names \cup {name})

\* Lines 186-234: the loop, on the elements still to visit.
RECURSIVE NormalizeLoop(_, _, _)
NormalizeLoop(elements, accommodations, seen_names) ==
    IF elements = <<>> THEN accommodations
    ELSE
      LET element == Head(elements)
          rest == Tail(elements)
      IN
      IF "tags" \notin DOMAIN element
      THEN NormalizeLoop(rest, accommodations, seen_names)
      ELSE
        LET tags == element.tags
            name == Get(tags, "name", Get(tags, "addr:street", "Unnamed"))
        IN
        IF name \in seen_names
        THEN NormalizeLoop(rest, accommodations, seen_names)
        ELSE IF "lat" \notin DOMAIN element \/ "lon" \notin DOMAIN element
        THEN NormalizeLoop(rest, accommodations, seen_names)
        ELSE
          LET tourism_type == Get(tags, "tourism", "accommodation")
              acc_tags ==
                  <<tourism_type>>
                  \o (IF "amenity" \in DOMAIN tags THEN <<tags["amenity"]>> ELSE <<>>)
                  \o (IF "building" \in DOMAIN tags THEN <<tags["building"]>> ELSE <<>>)
              accommodation ==
                  [id |-> Get(element, "id", 0),
                   name |-> name,
                   location |-> <<element.lat, element.lon>>,
                   type |-> tourism_type,
                   tags |-> acc_tags,
                   score |-> 0,
                   distance |-> 0,
                   source |-> "osm"]
          IN  NormalizeLoop(rest, Append(accommodations, accommodation),
                            seen_names \cup {name})

normalize_osm_data(osm_elements) == NormalizeLoop(osm_elements, <<>>, {})

(***************************************************************************)
(* filter_results (backend_execution.py 243-282)                           *)
(***************************************************************************)

\* FilterLoop, with the boundary excluded: distance >= max_distance drops.
RECURSIVE FilterLoopExclusive(_, _, _, _)
FilterLoopExclusive(refs, heap, kept, request) ==
    IF refs = <<>> THEN [heap |-> heap, filtered |-> kept]
    ELSE
      LET ref == Head(refs)
          acc == heap[ref]
          max_distance == request.radius
          required_tags == Get(request, "tags", <<>>)
          distance == haversine_distance(request.lat, request.lon,
                                         acc.location[1], acc.location[2])
          has_match == \E k \in 1..Len(required_tags) :
                          required_tags[k] \in Range(acc.tags)
      IN
      IF distance >= max_distance
      THEN FilterLoopExclusive(Tail(refs), heap, kept, request)
      ELSE IF required_tags # <<>> /\ ~has_match
      THEN FilterLoopExclusive(Tail(refs), heap, kept, request)
      ELSE FilterLoopExclusive(Tail(refs),
                      [heap EXCEPT ![ref] = [acc EXCEPT !.distance = distance]],
                      Append(kept, ref), request)

\* FilterLoop, with the distance stored before the two tests.
RECURSIVE FilterLoopStoresFirst(_, _, _, _)
FilterLoopStoresFirst(refs, heap, kept, request) ==
    IF refs = <<>> THEN [heap |-> heap, filtered |-> kept]
    ELSE
      LET ref == Head(refs)
          acc == heap[ref]
          max_distance == request.radius
          required_tags == Get(request, "tags", <<>>)
          distance == haversine_distance(request.lat, request.lon,
                                         acc.location[1], acc.location[2])
          has_match == \E k \in 1..Len(required_tags) :
                          required_tags[k] \in Range(acc.tags)
          stored == [heap EXCEPT ![ref] = [acc EXCEPT !.distance = distance]]
      IN
      IF distance > max_distance
      THEN FilterLoopStoresFirst(Tail(refs), stored, kept, request)
      ELSE IF required_tags # <<>> /\ ~has_match
      THEN FilterLoopStoresFirst(Tail(refs), stored, kept, request)
      ELSE FilterLoopStoresFirst(Tail(refs), stored, Append(kept, ref), request)

\* FilterLoop, without the test of the tags.
RECURSIVE FilterLoopAnyTags(_, _, _, _)
FilterLoopAnyTags(refs, heap, kept, request) ==
    IF refs = <<>> THEN [heap |-> heap, filtered |-> kept]
    ELSE
      LET ref == Head(refs)
          acc == heap[ref]
          max_distance == request.radius
          distance == haversine_distance(request.lat, request.lon,
                                         acc.location[1], acc.location[2])
      IN
      IF distance > max_distance
      THEN FilterLoopAnyTags(Tail(refs), heap, kept, request)
      ELSE FilterLoopAnyTags(Tail(refs),
                      [heap EXCEPT ![ref] = [acc EXCEPT !.distance = distance]],
                      Append(kept, ref), request)

\* Lines 261-280: the loop, on the references still to visit.  heap is the
\* dicts as the loop has left them so far, kept the list being built.
RECURSIVE FilterLoop(_, _, _, _)
FilterLoop(refs, heap, kept, request) ==
    IF refs = <<>> THEN [heap |-> heap, filtered |-> kept]
    ELSE
      LET ref == Head(refs)
          acc == heap[ref]
          max_distance == request.radius  \* radius / 1000 km, in metres
          required_tags == Get(request, "tags", <<>>)
          distance == haversine_distance(request.lat, request.lon,
                                         acc.location[1], acc.location[2])
          has_match == \E k \in 1..Len(required_tags) :
                          required_tags[k] \in Range(acc.tags)
      IN
      IF distance > max_distance
      THEN FilterLoop(Tail(refs), heap, kept, request)
      ELSE IF required_tags # <<>> /\ ~has_match
      THEN FilterLoop(Tail(refs), heap, kept, request)
      ELSE FilterLoop(Tail(refs),
                      [heap EXCEPT ![ref] = [acc EXCEPT !.distance = distance]],
                      Append(kept, ref), request)

filter_results(accommodations, heap, request) ==
    FilterLoop(accommodations, heap, <<>>, request)

(***************************************************************************)
(* rank_results (backend_execution.py 289-341)                             *)
(***************************************************************************)

\* round(score, 2) of a score in thousandths, in hundredths.  A score that
\* ends in exactly 5 thousandths is rounded by its binary representation in
\* the code; the distances of the model give none.
Round2(thousandths) ==
    LET q == thousandths \div 10
        r == thousandths % 10
    IN  IF r < 5 THEN q
        ELSE IF r > 5 THEN q + 1
        ELSE IF q % 2 = 0 THEN q ELSE q + 1

\* Score, with the matches counted over the entity's tag list, not its set.
ScoreCountsList(acc, request) ==
    LET required_tags == Get(request, "tags", <<>>)
        proximity_score == Max(0, 5000 - acc.distance)
        tag_matches == Cardinality({k \in 1..Len(acc.tags) :
                                       acc.tags[k] \in Range(required_tags)})
        tag_score == tag_matches * 2000
        type_bonus == IF acc.type = request.type THEN 3000 ELSE 0
        name_bonus == IF acc.name # "Unnamed" THEN 1000 ELSE 0
    IN  Round2(10000 + proximity_score + tag_score + type_bonus + name_bonus)

\* Lines 306-329: the score of one accommodation, in hundredths.
Score(acc, request) ==
    LET required_tags == Get(request, "tags", <<>>)
        proximity_score == Max(0, 5000 - acc.distance)
        tag_matches == Cardinality(Range(acc.tags) \cap Range(required_tags))
        tag_score == tag_matches * 2000
        type_bonus == IF acc.type = request.type THEN 3000 ELSE 0
        name_bonus == IF acc.name # "Unnamed" THEN 1000 ELSE 0
    IN  Round2(10000 + proximity_score + tag_score + type_bonus + name_bonus)

\* Lines 305-329: the loop that stores the scores.
RECURSIVE ScoreLoop(_, _, _)
ScoreLoop(refs, heap, request) ==
    IF refs = <<>> THEN heap
    ELSE LET ref == Head(refs)
         IN  ScoreLoop(Tail(refs),
                       [heap EXCEPT ![ref] =
                           [heap[ref] EXCEPT !.score = Score(heap[ref], request)]],
                       request)

\* InsertDesc, with ref put before the elements of equal score: the sort of
\* an ascending sort reversed, which turns the order of equal scores round.
RECURSIVE InsertDescBeforeEqual(_, _, _)
InsertDescBeforeEqual(ref, sorted, heap) ==
    IF sorted = <<>> THEN <<ref>>
    ELSE IF heap[Head(sorted)].score > heap[ref].score
    THEN <<Head(sorted)>> \o InsertDescBeforeEqual(ref, Tail(sorted), heap)
    ELSE <<ref>> \o sorted

\* Insertion of ref into a list sorted by descending score, after every
\* element whose score is not smaller: the order of equal scores is kept.
RECURSIVE InsertDesc(_, _, _)
InsertDesc(ref, sorted, heap) ==
    IF sorted = <<>> THEN <<ref>>
    ELSE IF heap[Head(sorted)].score >= heap[ref].score
    THEN <<Head(sorted)>> \o InsertDesc(ref, Tail(sorted), heap)
    ELSE <<ref>> \o sorted

\* Line 332: sorted(accommodations, key=score, reverse=True), a stable sort.
RECURSIVE SortedDesc(_, _, _)
SortedDesc(refs, done, heap) ==
    IF refs = <<>> THEN done
    ELSE SortedDesc(Tail(refs), InsertDesc(Head(refs), done, heap), heap)

\* TopResults, cut at the request's max_results (10) instead of 5.
TopResultsTen(sorted_accs) == SubSeq(sorted_accs, 1, Min(10, Len(sorted_accs)))

\* Line 335: sorted_accs[:5]
TopResults(sorted_accs) == SubSeq(sorted_accs, 1, Min(5, Len(sorted_accs)))

\* Lines 338-339: acc['rank'] = i + 1 for each of the top results.
RECURSIVE RankLoop(_, _, _)
RankLoop(top, i, heap) ==
    IF i >= Len(top) THEN heap
    ELSE RankLoop(top, i + 1,
                  [heap EXCEPT ![top[i + 1]] =
                      ("rank" :> (i + 1)) @@ heap[top[i + 1]]])

rank_results(accommodations, heap, request) ==
    IF accommodations = <<>>
    THEN [heap |-> heap, top_results |-> <<>>]
    ELSE LET scored == ScoreLoop(accommodations, heap, request)
             top == TopResults(SortedDesc(accommodations, <<>>, scored))
         IN  [heap |-> RankLoop(top, 0, scored), top_results |-> top]


(***************************************************************************)
(* clean_location_input, validate_and_geocode (input_processing.py 17-146) *)
(***************************************************************************)

\* What model.generate_content can come to.
GeminiReplies ==
    { [kind |-> "response", text |-> <<"V", "ux", "n", "g", " ", "T", "af", "u", " ">>],
      [kind |-> "response", text |-> <<"V">>],
      [kind |-> "response", text |-> [i \in 1..101 |-> "x"]],
      [kind |-> "response", text |-> <<>>],
      [kind |-> "Exception", str |-> "API key not valid"] }

GenerateContent(reply) == [op |-> "generate_content", reply |-> reply]

\* The pair returned, and the outbound calls made, for one reply of the
\* text-cleanup service.
clean_location_input(raw_text, reply) ==
    IF raw_text = <<>> \/ strip(raw_text) = <<>>
    THEN [ret |-> [error |-> [text |-> "Input khong duoc de trong"]], calls |-> <<>>]
    ELSE
      LET calls == <<GenerateContent(reply)>>
      IN  IF reply.kind = "Exception"
          THEN [ret |-> [error |-> [text |-> "Loi khi goi Gemini API: {e}", e |-> reply.str]],
                calls |-> calls]
          ELSE IF reply.text = <<>>
          THEN [ret |-> [error |-> [text |-> "Gemini API khong tra ve ket qua"]],
                calls |-> calls]
          ELSE LET cleaned == strip(reply.text)
               IN  IF Len(cleaned) < 2 \/ Len(cleaned) > 100
                   THEN [ret |-> [error |-> [text |-> "Ten dia diem khong hop le"]],
                         calls |-> calls]
                   ELSE [ret |-> [value |-> cleaned], calls |-> calls]

\* What the geocoding requests.get can come to.
PlaceName == <<"V", "ux", "n", "g", " ", "T", "af", "u", ",", " ", "V", "i", "eej", "t", " ", "N", "a", "m">>

GeoReplies ==
    { [kind |-> "response", status_code |-> 200,
       json |-> << [lat |-> 0, lon |-> 0, display_name |-> PlaceName, type |-> "city"] >>],
      [kind |-> "response", status_code |-> 200, json |-> << [lat |-> 0, lon |-> 0] >>],
      [kind |-> "response", status_code |-> 200, json |-> << [display_name |-> PlaceName] >>],
      [kind |-> "response", status_code |-> 200, json |-> <<>>],
      [kind |-> "response", status_code |-> 503],
      [kind |-> "Timeout"],
      [kind |-> "RequestException", str |-> "connection refused"] }

GetCall(url, q, timeout, reply) ==
    [op |-> "get", url |-> url, q |-> q, timeout |-> timeout, reply |-> reply]

NominatimUrl == <<"https:", "", "nominatim.openstreetmap.org", "search">>

validate_and_geocode(location_name, reply) ==
    LET q == [text |-> "{location_name}, Vietnam", location_name |-> location_name]
        calls == <<Sleep(1), GetCall(NominatimUrl, q, 10, reply)>>
        fail(e) == [ret |-> [error |-> e], calls |-> calls]
    IN  IF reply.kind = "Timeout"
        THEN fail([text |-> "Timeout khi goi Nominatim API (qua 10s)"])
        ELSE IF reply.kind = "RequestException"
        THEN fail([text |-> "Loi ket noi Nominatim API: {e}", e |-> reply.str])
        ELSE IF reply.status_code # 200
        THEN fail([text |-> "Nominatim API tra ve loi: {status}", status |-> reply.status_code])
        ELSE IF reply.json = <<>>
        THEN fail([text |-> "Khong tim thay dia diem '{location_name}' o Viet Nam",
                   location_name |-> location_name])
        ELSE LET r == reply.json[1]
             IN  IF "lat" \notin DOMAIN r \/ "lon" \notin DOMAIN r
                 THEN fail([text |-> "Loi khong xac dinh: {e}", e |-> "KeyError"])
                 ELSE [ret |-> [value |->
                                 [name |-> Get(r, "display_name", location_name),
                                  lat |-> r.lat,
                                  lon |-> r.lon,
                                  type |-> Get(r, "type", "unknown"),
                                  importance |-> Get(r, "importance", 0)]],
                       calls |-> calls]

(***************************************************************************)
(* The submit handler (app.py 137-241)                                     *)
(***************************************************************************)

LocationTexts == { <<>>, <<" ", " ">>, <<"v", "u", "n", "g", " ", "t", "a", "u">> }

\* The options of the two select boxes (app.py 113-123).
BudgetOptions ==
    { <<"R", "er">>,
      <<"T", "r", "u", "n", "g", " ", "b", "if", "n", "h">>,
      <<"C", "a", "o">> }

TypeOptions ==
    { <<"H", "o", "m", "e", "s", "t", "a", "y">>,
      <<"K", "h", "as", "c", "h", " ", "s", "aj", "n">>,
      <<"R", "e", "s", "o", "r", "t">>,
      <<"V", "i", "l", "l", "a">>,
      <<"H", "o", "s", "t", "e", "l">> }

FormAmbianceTexts == { <<>>, <<"q", "u", "i", "e", "t">> }

\* Submit, without the test of the location text.
SubmitUnchecked ==
    /\ pc = "form"
    /\ \E l \in LocationTexts, b \in BudgetOptions, t \in TypeOptions,
          a \in FormAmbianceTexts :
         /\ location_input' = l
         /\ budget_input' = b
         /\ type_input' = t
         /\ ambiance_input' = a
         /\ pc' = "clean" /\ stop' = stop
    /\ UNCHANGED <<cleaned_location, geo_data, filters, search_request, server,
                   last_error, result, log, stageVars>>

\* Lines 137-141: the form is submitted.
Submit ==
    /\ pc = "form"
    /\ \E l \in LocationTexts, b \in BudgetOptions, t \in TypeOptions,
          a \in FormAmbianceTexts :
         /\ location_input' = l
         /\ budget_input' = b
         /\ type_input' = t
         /\ ambiance_input' = a
         /\ IF l = <<>> \/ strip(l) = <<>>
            THEN pc' = "stopped" /\ stop' = "input"
            ELSE pc' = "clean" /\ stop' = stop
    /\ UNCHANGED <<cleaned_location, geo_data, filters, search_request, server,
                   last_error, result, log, stageVars>>

\* Lines 154-160
CleanStep ==
    /\ pc = "clean"
    /\ \E reply \in GeminiReplies :
         LET c == clean_location_input(location_input, reply)
         IN  /\ log' = log \o c.calls
             /\ IF "error" \in DOMAIN c.ret
                THEN /\ pc' = "stopped" /\ stop' = "clean"
                     /\ UNCHANGED cleaned_location
                ELSE /\ cleaned_location' = c.ret.value
                     /\ pc' = "geocode" /\ stop' = stop
    /\ UNCHANGED <<formVars, geo_data, filters, search_request, server,
                   last_error, result, stageVars>>

\* Lines 168-174
GeocodeStep ==
    /\ pc = "geocode"
    /\ \E reply \in GeoReplies :
         LET g == validate_and_geocode(cleaned_location, reply)
         IN  /\ log' = log \o g.calls
             /\ IF "error" \in DOMAIN g.ret
                THEN /\ pc' = "stopped" /\ stop' = "geocode"
                     /\ UNCHANGED geo_data
                ELSE /\ geo_data' = g.ret.value
                     /\ pc' = "normalize_filters" /\ stop' = stop
    /\ UNCHANGED <<formVars, cleaned_location, filters, search_request, server,
                   last_error, result, stageVars>>

\* Line 182
NormalizeFiltersStep ==
    /\ pc = "normalize_filters"
    /\ filters' = normalize_filters(budget_input, type_input, ambiance_input)
    /\ pc' = "build"
    /\ UNCHANGED <<formVars, cleaned_location, geo_data, search_request, server,
                   last_error, result, log, stageVars, stop>>

\* Line 193
BuildStep ==
    /\ pc = "build"
    /\ search_request' = build_search_request(geo_data, filters)
    /\ pc' = "call_search"
    /\ UNCHANGED <<formVars, cleaned_location, geo_data, filters, server,
                   last_error, result, log, stageVars, stop>>

\* Line 201 and backend_execution.py 27-52: search_accommodations is entered.
SearchStart ==
    /\ pc = "call_search"
    /\ server' = 1
    /\ last_error' = None
    /\ pc' = "search"
    /\ UNCHANGED <<formVars, cleaned_location, geo_data, filters,
                   search_request, result, log, stageVars, stop>>

\* Lines 203-208: the handler looks at what search_accommodations returned.
AfterSearch ==
    /\ pc = "search_returned"
    /\ IF "error" \in DOMAIN result
       THEN pc' = "stopped" /\ stop' = "search"
       ELSE pc' = "normalize" /\ stop' = stop
    /\ UNCHANGED <<formVars, cleaned_location, geo_data, filters,
                   search_request, server, last_error, result, log, stageVars>>

\* Line 216
NormalizeStep ==
    /\ pc = "normalize"
    /\ accs' = normalize_osm_data(result.elements)
    /\ normalized' = [i \in 1..Len(accs') |-> i]
    /\ pc' = "filter"
    /\ UNCHANGED <<formVars, cleaned_location, geo_data, filters,
                   search_request, server, last_error, result, log,
                   filtered, ranked, stop>>

\* Lines 226-233
FilterStep ==
    /\ pc = "filter"
    /\ LET f == filter_results(normalized, accs, search_request)
       IN  /\ accs' = f.heap
           /\ filtered' = f.filtered
           /\ IF f.filtered = <<>>
              THEN pc' = "stopped" /\ stop' = "filter"
              ELSE pc' = "rank" /\ stop' = stop
    /\ UNCHANGED <<formVars, cleaned_location, geo_data, filters,
                   search_request, server, last_error, result, log,
                   normalized, ranked>>

\* Line 241
RankStep ==
    /\ pc = "rank"
    /\ LET r == rank_results(filtered, accs, search_request)
       IN  /\ accs' = r.heap
           /\ ranked' = r.top_results
    /\ pc' = "done"
    /\ UNCHANGED <<formVars, cleaned_location, geo_data, filters,
                   search_request, server, last_error, result, log,
                   normalized, filtered, stop>>

Init ==
    /\ pc = "form"
    /\ location_input = <<>>
    /\ budget_input = <<>>
    /\ type_input = <<>>
    /\ ambiance_input = <<>>
    /\ cleaned_location = <<>>
    /\ geo_data = None
    /\ filters = None
    /\ search_request = None
    /\ server = 1
    /\ last_error = None
    /\ result = None
    /\ log = <<>>
    /\ accs = <<>>
    /\ normalized = <<>>
    /\ filtered = <<>>
    /\ ranked = <<>>
    /\ stop = ""

Next ==
    \/ Submit
    \/ CleanStep
    \/ GeocodeStep
    \/ NormalizeFiltersStep
    \/ BuildStep
    \/ SearchStart
    \/ TryServer
    \/ SearchExhausted
    \/ AfterSearch
    \/ NormalizeStep
    \/ FilterStep
    \/ RankStep

\* One submission of the form, from the click to the ranked list or st.stop().
Spec == Init /\ [][Next]_vars


(***************************************************************************)
(* search_accommodations_nominatim_fallback (backend_execution.py 107-166) *)
(***************************************************************************)

Place(id, lat, lon, name) ==
    [place_id |-> id, lat |-> lat, lon |-> lon, display_name |-> name]

\* What the fallback's requests.get can come to.
FallbackReplies ==
    { [kind |-> "response", status_code |-> 200,
       json |-> << Place(11, 0, 0, "Hotel A"), Place(12, 0, 1200, "Hotel B") >>],
      [kind |-> "response", status_code |-> 200,
       json |-> << [place_id |-> 13, display_name |-> "Hotel C"], Place(14, 3000, 4000, "Hotel D") >>],
      [kind |-> "response", status_code |-> 200,
       json |-> << [place_id |-> 13, display_name |-> "Hotel C"], [lat |-> 0, display_name |-> "Hotel E"] >>],
      [kind |-> "response", status_code |-> 200, json |-> << [lat |-> 0, lon |-> 0] >>],
      [kind |-> "response", status_code |-> 200, json |-> <<>>],
      [kind |-> "response", status_code |-> 200,
       json |-> << [display_name |-> "Hotel F"] >>],
      [kind |-> "response", status_code |-> 429],
      [kind |-> "response", status_code |-> 500],
      [kind |-> "response", status_code |-> 503],
      [kind |-> "Timeout", str |-> "read timed out"],
      [kind |-> "RequestException", str |-> "connection refused"] }

\* Lines 148-161: the elements built from the items that have lat and lon.
RECURSIVE FallbackElements(_)
FallbackElements(data) ==
    IF data = <<>> THEN <<>>
    ELSE LET item == Head(data)
         IN  IF "lat" \in DOMAIN item /\ "lon" \in DOMAIN item
             THEN << [id |-> Get(item, "place_id", 0),
                      type |-> "node",
                      lat |-> item.lat,
                      lon |-> item.lon,
                      tags |-> [name |-> Get(item, "display_name", "Unnamed"),
                                tourism |-> "hotel"]] >>
                  \o FallbackElements(Tail(data))
             ELSE FallbackElements(Tail(data))

search_accommodations_nominatim_fallback(request, reply) ==
    LET q == [text |-> "hotel {location_name}", location_name |-> request.location_name]
        calls == <<Sleep(1), GetCall(NominatimUrl, q, 10, reply)>>
    IN  IF reply.kind # "response"
        THEN [ret |-> [error |-> [text |-> "Loi Nominatim fallback: {e}", e |-> reply.str]],
              calls |-> calls]
        ELSE IF reply.status_code # 200
        THEN [ret |-> [error |-> [text |-> "Nominatim fallback that bai: HTTP {status}",
                                  status |-> reply.status_code]],
              calls |-> calls]
        ELSE IF reply.json = <<>>
        THEN [ret |-> [error |-> [text |-> "Khong tim thay ket qua"]], calls |-> calls]
        ELSE [ret |-> [elements |-> FallbackElements(reply.json)], calls |-> calls]

\* A call of the fallback search.  The submit handler makes none.
FallbackCall ==
    /\ pc = "call_fallback"
    /\ \E reply \in FallbackReplies :
         LET f == search_accommodations_nominatim_fallback(search_request, reply)
         IN  /\ log' = log \o f.calls
             /\ result' = f.ret
    /\ pc' = "fallback_returned"
    /\ UNCHANGED <<formVars, cleaned_location, geo_data, filters,
                   search_request, server, last_error, stageVars, stop>>

(***************************************************************************)
(* The stages called one after the other on a list of raw records          *)
(***************************************************************************)

NormalizeCall ==
    /\ pc = "normalize_osm_data"
    /\ accs' = normalize_osm_data(result.elements)
    /\ normalized' = [i \in 1..Len(accs') |-> i]
    /\ pc' = "filter_results"
    /\ UNCHANGED <<formVars, cleaned_location, geo_data, filters,
                   search_request, server, last_error, result, log,
                   filtered, ranked, stop>>

FilterCall ==
    /\ pc = "filter_results"
    /\ LET f == filter_results(normalized, accs, search_request)
       IN  /\ accs' = f.heap
           /\ filtered' = f.filtered
    /\ pc' = "rank_results"
    /\ UNCHANGED <<formVars, cleaned_location, geo_data, filters,
                   search_request, server, last_error, result, log,
                   normalized, ranked, stop>>

RankCall ==
    /\ pc = "rank_results"
    /\ LET r == rank_results(filtered, accs, search_request)
       IN  /\ accs' = r.heap
           /\ ranked' = r.top_results
    /\ pc' = "ranked"
    /\ UNCHANGED <<formVars, cleaned_location, geo_data, filters,
                   search_request, server, last_error, result, log,
                   normalized, filtered, stop>>


(***************************************************************************)
(* Specifications of the single functions, on inputs drawn from bounded    *)
(* sets                                                                    *)
(***************************************************************************)

MaxRaw == 3
MaxAcc == 6
MaxTokens == 2

NoForm ==
    /\ location_input = <<>>
    /\ budget_input = <<>>
    /\ type_input = <<>>
    /\ ambiance_input = <<>>
    /\ cleaned_location = <<>>

NoSearch ==
    /\ server = 1
    /\ last_error = None
    /\ log = <<>>
    /\ stop = ""

Geo0 == [name |-> PlaceName, lat |-> 0, lon |-> 0, type |-> "city", importance |-> 0]

StageFilters ==
    { [budget |-> "medium", type |-> t, tags |-> ts] :
        t \in {"hotel", "guest_house"},
        ts \in { <<>>, <<"quiet">>, <<"quiet", "beachfront">> } }

\* normalize_osm_data, then filter_results, then rank_results, on every list
\* of at most MaxRaw records of the catalogue.
InitNormalize ==
    /\ pc = "normalize_osm_data"
    /\ NoForm /\ NoSearch
    /\ geo_data = Geo0
    /\ filters \in StageFilters
    /\ search_request = build_search_request(geo_data, filters)
    /\ \E n \in 0..MaxRaw : \E els \in [1..n -> RawCatalogue] :
         result = [elements |-> els]
    /\ accs = <<>>
    /\ normalized = <<>>
    /\ filtered = <<>>
    /\ ranked = <<>>

NextNormalize == NormalizeCall \/ FilterCall \/ RankCall

SpecNormalize == InitNormalize /\ [][NextNormalize]_vars

\* The records of the long lists: a kind gives the place and the tags, the
\* position in the list gives the name.
Names == <<"N1", "N2", "N3", "N4", "N5", "N6", "N7", "N8">>

Kinds ==
    { [lat |-> 0, lon |-> 0, named |-> TRUE,
       tags |-> [tourism |-> "hotel", amenity |-> "quiet", building |-> "beachfront"]],
      [lat |-> 0, lon |-> 1200, named |-> TRUE,
       tags |-> [tourism |-> "guest_house", amenity |-> "quiet"]],
      [lat |-> 5001, lon |-> 0, named |-> TRUE,
       tags |-> [tourism |-> "hotel"]],
      [lat |-> 3000, lon |-> 4000, named |-> TRUE,
       tags |-> [tourism |-> "hostel", amenity |-> "quiet", building |-> "quiet"]],
      [lat |-> 0, lon |-> 4999, named |-> FALSE,
       tags |-> [tourism |-> "hotel"]] }

KindRecord(kind, i) ==
    El(i, kind.lat, kind.lon,
       IF kind.named THEN ("name" :> Names[i]) @@ kind.tags ELSE kind.tags)

LongFilters ==
    { [budget |-> "medium", type |-> "hotel", tags |-> <<>>],
      [budget |-> "low", type |-> "hotel", tags |-> <<"quiet", "beachfront">>] }

\* filter_results, then rank_results, on what normalize_osm_data makes of
\* every list of at most MaxAcc such records.
InitStages ==
    /\ pc = "filter_results"
    /\ NoForm /\ NoSearch
    /\ geo_data = Geo0
    /\ filters \in LongFilters
    /\ search_request = build_search_request(geo_data, filters)
    /\ \E n \in 0..MaxAcc : \E kinds \in [1..n -> Kinds] :
         result = [elements |-> [i \in 1..n |-> KindRecord(kinds[i], i)]]
    /\ accs = normalize_osm_data(result.elements)
    /\ normalized = [i \in 1..Len(accs) |-> i]
    /\ filtered = <<>>
    /\ ranked = <<>>

NextStages == FilterCall \/ RankCall

SpecStages == InitStages /\ [][NextStages]_vars

\* Texts for normalize_filters.
BudgetTexts ==
    BudgetOptions \cup
    { <<"C", "A", "O">>,
      <<" ", " ", "c", "a", "o", " ">>,
      <<"G", "i", "as", " ", "R", "er">>,
      <<"c", "a", " ", "o">>,
      <<"?", "?", "?">>,
      <<>> }

TypeTexts ==
    TypeOptions \cup
    { <<" ", "V", "I", "L", "L", "A", "\t">>,
      <<"B", "i", "eej", "t", " ", "T", "h", "uwj">>,
      <<"?", "?", "?">>,
      <<>> }

AmbianceTokens ==
    { <<"q", "u", "i", "e", "t">>,
      <<"Q", "U", "I", "E", "T">>,
      <<"p", "e", "a", "c", "e", "f", "u", "l">>,
      <<"b", "e", "a", "c", "h">>,
      <<"x", "y", "z">>,
      <<"y", "ee", "n">>,
      <<"f", "a", "m", "i", "l", "y">> }

Separators == { <<",">>, <<" ">>, <<",", " ">> }

RECURSIVE Join(_, _)
Join(tokens, sep) ==
    IF tokens = <<>> THEN <<>>
    ELSE IF Len(tokens) = 1 THEN tokens[1]
    ELSE tokens[1] \o sep \o Join(Tail(tokens), sep)

\* 'yen tinh, gan bien, xyz' with its diacritics
QuietBeachXyz ==
    <<"y", "ee", "n", " ", "t", "ix", "n", "h", ",", " ",
      "g", "aaf", "n", " ", "b", "i", "eer", "n", ",", " ", "x", "y", "z">>

AmbianceTexts ==
    { Join(ts, sep) : ts \in UNION { [1..n -> AmbianceTokens] : n \in 0..MaxTokens },
                      sep \in Separators }
    \cup { QuietBeachXyz, <<" ", " ">> }

InitFilters ==
    /\ pc = "normalize_filters"
    /\ location_input = <<>>
    /\ cleaned_location = <<>>
    /\ budget_input \in BudgetTexts
    /\ type_input \in TypeTexts
    /\ ambiance_input \in AmbianceTexts
    /\ NoSearch
    /\ geo_data = Geo0
    /\ filters = None
    /\ search_request = None
    /\ result = None
    /\ accs = <<>>
    /\ normalized = <<>>
    /\ filtered = <<>>
    /\ ranked = <<>>

NextFilters == NormalizeFiltersStep \/ BuildStep

SpecFilters == InitFilters /\ [][NextFilters]_vars

\* The fallback search called on a search request.
GeoNhaTrang ==
    [name |-> <<"N", "h", "a", " ", "T", "r", "a", "n", "g">>, lat |-> 3000, lon |-> 4000,
     type |-> "unknown", importance |-> 0]

InitFallback ==
    /\ pc = "call_fallback"
    /\ NoForm /\ NoSearch
    /\ geo_data \in {Geo0, GeoNhaTrang}
    /\ filters \in StageFilters
    /\ search_request = build_search_request(geo_data, filters)
    /\ result = None
    /\ accs = <<>>
    /\ normalized = <<>>
    /\ filtered = <<>>
    /\ ranked = <<>>

NextFallback == FallbackCall

SpecFallback == InitFallback /\ [][NextFallback]_vars


(***************************************************************************)
(* Properties of search_accommodations and of the search step              *)
(***************************************************************************)

IsPost(e) == e.op = "post"

\* The attempts against the mirrors made so far, in order.
Posts == SelectSeq(log, IsPost)

\* The answer that ends the search: status 200 with at least one record.
Succeeded(reply) ==
    /\ reply.kind = "response"
    /\ reply.status_code = 200
    /\ "json" \in DOMAIN reply
    /\ "elements" \in DOMAIN reply.json
    /\ reply.json.elements # <<>>

Overloaded(reply) ==
    /\ reply.kind = "response"
    /\ reply.status_code \in {429, 504}

\* The failure reason search_accommodations records for the k-th attempt.
ReasonOf(k) == Attempt(overpass_servers[k], Posts[k].reply, None).last_error

SearchOver == pc \notin {"form", "clean", "geocode", "normalize_filters", "build",
                         "call_search", "search"}

\* C1: the k-th attempt is against the k-th endpoint of the list (fixed order,
\* each endpoint at most once), every attempt but the last one made has
\* failed, and once an attempt answers 200 with at least one record the
\* search is over, its result is exactly that answer's records with no
\* failure reason, and no further attempt is ever made; a result with
\* records comes from nowhere else.
C1_FirstSuccessWins ==
    LET n == Len(Posts)
    IN  /\ n <= Len(overpass_servers)
        /\ \A k \in 1..n : Posts[k].url = overpass_servers[k]
        /\ \A k \in 1..n : k < n => ~Succeeded(Posts[k].reply)
        /\ (n > 0 /\ Succeeded(Posts[n].reply)) =>
              /\ SearchOver
              /\ result = [elements |-> Posts[n].reply.json.elements]
        /\ (SearchOver /\ "elements" \in DOMAIN result) =>
              /\ n > 0
              /\ Succeeded(Posts[n].reply)

\* Two mirrors failed (one empty, one overloaded), the third answered with two
\* records, and the search has returned them.
C1_Witness ==
    /\ pc = "search_returned"
    /\ Len(Posts) = 3
    /\ Posts[1].reply = [kind |-> "response", status_code |-> 200, json |-> [elements |-> <<>>]]
    /\ Overloaded(Posts[2].reply)
    /\ Succeeded(Posts[3].reply)
    /\ result = [elements |-> <<RecHotelA, RecGuestB>>]

\* C2: when every endpoint has been tried and has failed, the result is
\* (None, message), and the only thing interpolated into the message is the
\* reason recorded for the last endpoint: a different reason recorded for an
\* earlier endpoint is not in it.
C2_LastReasonOnly ==
    (SearchOver /\ Len(Posts) = Len(overpass_servers)
                /\ \A k \in 1..Len(Posts) : ~Succeeded(Posts[k].reply))
    => /\ DOMAIN result = {"error"}
       /\ DOMAIN result.error = {"text", "last_error"}
       /\ result.error.last_error = ReasonOf(Len(Posts))
       /\ \A k \in 1..(Len(Posts) - 1) :
             ReasonOf(k) # ReasonOf(Len(Posts)) => result.error.last_error # ReasonOf(k)

\* Three failures of three different kinds, and the failure returned.
C2_Witness ==
    /\ pc = "search_returned"
    /\ Len(Posts) = 3
    /\ Posts[1].reply.kind = "Timeout"
    /\ Overloaded(Posts[2].reply)
    /\ Posts[3].reply = [kind |-> "response", status_code |-> 500]
    /\ "error" \in DOMAIN result
    /\ ReasonOf(1) # ReasonOf(3)
    /\ ReasonOf(2) # ReasonOf(3)

\* C3: a submission that ends with a retrieval failure has called the
\* fallback search after the attempts against the mirrors.
C3_FallbackBeforeFailure ==
    (pc = "stopped" /\ stop = "search")
    => \E p \in 1..Len(log) :
          /\ log[p].op = "get"
          /\ log[p].q.text = "hotel {location_name}"
          /\ \A k \in 1..Len(log) : log[k].op = "post" => k < p

\* C10: an attempt is followed by a pause of 2 exactly when its answer has
\* status 429 or 504, the pause comes right after that attempt and so before
\* the next one, and after any other attempt the next thing done is the next
\* attempt; there is no pause of 2 anywhere else.
C10_PauseOnlyWhenOverloaded ==
    /\ \A p \in 1..Len(log) :
          log[p].op = "post" =>
             /\ Overloaded(log[p].reply) <=> (p < Len(log) /\ log[p + 1] = Sleep(2))
             /\ (~Overloaded(log[p].reply) /\ p < Len(log)) => log[p + 1].op = "post"
    /\ \A p \in 1..Len(log) :
          log[p] = Sleep(2) =>
             /\ p > 1
             /\ log[p - 1].op = "post"
             /\ Overloaded(log[p - 1].reply)

\* An overloaded mirror, the pause, then a mirror with a plain error, then
\* the third mirror at once.
C10_Witness ==
    /\ Len(Posts) = 3
    /\ \E p \in 1..Len(log) :
          /\ p + 3 <= Len(log)
          /\ log[p].op = "post" /\ Overloaded(log[p].reply)
          /\ log[p + 1] = Sleep(2)
          /\ log[p + 2].op = "post"
          /\ log[p + 2].reply = [kind |-> "response", status_code |-> 404]
          /\ log[p + 3].op = "post"


\* The position in the log of the k-th attempt against a mirror.
PostAt(k) ==
    CHOOSE p \in 1..Len(log) :
       /\ log[p].op = "post"
       /\ Cardinality({q \in 1..p : log[q].op = "post"}) = k

\* What the log holds between the k-th attempt and the one after it.
Between(k) == SubSeq(log, PostAt(k) + 1, PostAt(k + 1) - 1)

\* C11 as stated: every attempt against an endpoint other than the first is
\* preceded by a pause, taken after the attempt before it, whatever that
\* attempt's outcome was.
C11_PauseBeforeEveryLaterAttempt ==
    \A k \in 1..(Len(Posts) - 1) :
       \E i \in 1..Len(Between(k)) : Between(k)[i].op = "sleep"

\* C11 amended: an attempt against an endpoint other than the first is
\* preceded by a pause, of 2 and taken once, exactly when the attempt before
\* it was answered with status 429 or 504; after a timeout, a connection
\* error, any other status or a 200 answer without records it starts with
\* nothing done in between.
C11_PauseBeforeLaterAttemptIffOverloaded ==
    \A k \in 1..(Len(Posts) - 1) :
       Between(k) = IF Overloaded(Posts[k].reply) THEN <<Sleep(2)>> ELSE <<>>

\* A timeout at the first mirror and the second attempt at once; an
\* overloaded second mirror, and the third attempt after a pause.
C11_Witness ==
    /\ Len(Posts) = 3
    /\ Posts[1].reply.kind = "Timeout"
    /\ Between(1) = <<>>
    /\ Posts[2].reply = [kind |-> "response", status_code |-> 504]
    /\ Between(2) = <<Sleep(2)>>


(***************************************************************************)
(* Properties of search_accommodations_nominatim_fallback                  *)
(***************************************************************************)

\* C15: what the fallback search returns is either a list of at least one
\* record and no failure reason, or a failure reason and no list.
C15_RecordsOrFailure ==
    pc = "fallback_returned" =>
       \/ DOMAIN result = {"elements"} /\ result.elements # <<>>
       \/ DOMAIN result = {"error"}

(***************************************************************************)
(* Properties of normalize_osm_data                                        *)
(***************************************************************************)

Eligible(e) == "tags" \in DOMAIN e /\ "lat" \in DOMAIN e /\ "lon" \in DOMAIN e

\* The name a record with tags stands for: name, else street, else Unnamed.
RecordName(e) == Get(e.tags, "name", Get(e.tags, "addr:street", "Unnamed"))

MadeOf(acc, e) ==
    /\ Eligible(e)
    /\ acc.name = RecordName(e)
    /\ acc.location = <<e.lat, e.lon>>
    /\ acc.id = Get(e, "id", 0)

\* The ways to read the emitted entities as made, in order, of records of
\* the input that have tags, a latitude and a longitude.
Origins ==
    LET els == result.elements
    IN  { o \in [1..Len(accs) -> 1..Len(els)] :
            /\ \A j \in 1..Len(accs) : MadeOf(accs[j], els[o[j]])
            /\ \A i, j \in 1..Len(accs) : i < j => o[i] < o[j] }

DistinctNames == \A i, j \in 1..Len(accs) : i # j => accs[i].name # accs[j].name

\* C4 as stated: every entity comes from a record with tags and coordinates,
\* no two entities have the same name, and the entity of a name comes from
\* the first record of the input that yields that name.
C4_FirstOfNameSurvives ==
    pc # "normalize_osm_data" =>
       LET els == result.elements
       IN  /\ DistinctNames
           /\ \E o \in Origins :
                 \A j \in 1..Len(accs) : \A k \in 1..Len(els) :
                    ("tags" \in DOMAIN els[k] /\ RecordName(els[k]) = accs[j].name)
                       => o[j] <= k

\* C4 amended: every entity comes from a record with tags and coordinates,
\* no two entities have the same name (Unnamed included), every record with
\* tags and coordinates has its name emitted, and the entity of a name comes
\* from the first record of that name that has tags and both coordinates.
C4_FirstEligibleOfNameSurvives ==
    pc # "normalize_osm_data" =>
       LET els == result.elements
       IN  /\ DistinctNames
           /\ \A k \in 1..Len(els) :
                 Eligible(els[k]) =>
                    \E j \in 1..Len(accs) : accs[j].name = RecordName(els[k])
           /\ \E o \in Origins :
                 \A j \in 1..Len(accs) : \A k \in 1..Len(els) :
                    (Eligible(els[k]) /\ RecordName(els[k]) = accs[j].name)
                       => o[j] <= k

\* A way named A without coordinates, then two nodes named A: one entity,
\* made of the first node.
C4_Witness ==
    /\ pc = "filter_results"
    /\ result.elements = <<RecWayA, RecHotelA, RecEdgeA>>
    /\ Len(accs) = 1
    /\ accs[1].id = 1
    /\ accs[1].name = "A"

\* The k-th record has tags and both coordinates and no record before it
\* with tags and both coordinates stands for the same name.
FirstEligibleOfItsName(k) ==
    LET els == result.elements
    IN  /\ Eligible(els[k])
        /\ \A h \in 1..(k - 1) :
              ~(Eligible(els[h]) /\ RecordName(els[h]) = RecordName(els[k]))

\* The k-th record is skipped by the loop before its name is looked up or
\* after it: it has no tags, or lacks a coordinate.
Skipped(k) == ~Eligible(result.elements[k])

\* C16: a record that is the first of its name with tags and coordinates is
\* emitted whatever skipped records come before it, the skipped records of
\* its own name included, and it is what the entity of that name is made
\* of; the names emitted are those of the records emitted, a name that only
\* skipped records stand for being absent.
C16_SkippedRecordReservesNoName ==
    pc # "normalize_osm_data" =>
       LET els == result.elements
       IN  /\ \A k \in 1..Len(els) :
                 FirstEligibleOfItsName(k) =>
                    /\ \E j \in 1..Len(accs) : MadeOf(accs[j], els[k])
                    /\ \A j \in 1..Len(accs) :
                          accs[j].name = RecordName(els[k]) => MadeOf(accs[j], els[k])
           /\ {accs[j].name : j \in 1..Len(accs)}
                 = {RecordName(els[k]) : k \in {h \in 1..Len(els) : ~Skipped(h)}}

\* A record named B without a longitude, a record without tags, then a node
\* named B: the node is emitted, and nothing else.
C16_Witness ==
    /\ pc = "filter_results"
    /\ result.elements = <<RecNoLon, RecNoTags, RecGuestB>>
    /\ Skipped(1) /\ RecordName(result.elements[1]) = "B"
    /\ Skipped(2)
    /\ Len(accs) = 1
    /\ accs[1].id = 2
    /\ accs[1].name = "B"

(***************************************************************************)
(* Properties of filter_results                                            *)
(***************************************************************************)

Filtered == pc \in {"rank_results", "ranked"}

\* Distance in metres of an entity from the target of the request.
DistanceOf(acc) ==
    haversine_distance(search_request.lat, search_request.lon,
                       acc.location[1], acc.location[2])

SharedTags(acc) == Range(acc.tags) \cap Range(search_request.tags)

\* C5: an entity is kept if and only if its distance is at most the radius
\* (radius / 1000 km is radius metres; equality keeps) and the request has
\* no tags or shares at least one with the entity.
C5_KeptIffNearAndTagged ==
    Filtered =>
       \A j \in 1..Len(normalized) :
          LET acc == accs[normalized[j]]
          IN  (normalized[j] \in Range(filtered))
                 <=> /\ DistanceOf(acc) <= search_request.radius
                     /\ \/ search_request.tags = <<>>
                        \/ SharedTags(acc) # {}

\* With tags requested: an entity exactly on the boundary that shares one tag
\* is kept, an entity 1 m beyond is dropped, an entity inside that shares no
\* tag is dropped.
C5_Witness ==
    /\ pc = "rank_results"
    /\ search_request.tags # <<>>
    /\ \E r \in Range(filtered) :
          /\ DistanceOf(accs[r]) = search_request.radius
          /\ Cardinality(SharedTags(accs[r])) = 1
    /\ \E r \in Range(normalized) \ Range(filtered) :
          DistanceOf(accs[r]) = search_request.radius + 1
    /\ \E r \in Range(normalized) \ Range(filtered) :
          /\ DistanceOf(accs[r]) < search_request.radius
          /\ SharedTags(accs[r]) = {}

\* The entities as normalize_osm_data hands them to filter_results.
Given == normalize_osm_data(result.elements)

\* s is increasing: as a list of references into the input list, it is a
\* subsequence of that list in its order.
Increasing(s) == \A i, j \in 1..Len(s) : i < j => s[i] < s[j]

\* C12: when filter_results has returned, a kept entity is the entity given
\* with its distance set to the computed distance and nothing else changed,
\* a dropped entity is the entity given, the input list and the search
\* request are as they were, and the returned list is a subsequence of the
\* input list in the input's order.
C12_OnlyDistanceOfKept ==
    pc = "rank_results" =>
       /\ Len(accs) = Len(Given)
       /\ \A r \in 1..Len(Given) :
             accs[r] = IF r \in Range(filtered)
                       THEN [Given[r] EXCEPT !.distance = DistanceOf(Given[r])]
                       ELSE Given[r]
       /\ normalized = [i \in 1..Len(Given) |-> i]
       /\ search_request = build_search_request(geo_data, filters)
       /\ Range(filtered) \subseteq Range(normalized)
       /\ Increasing(filtered)

\* Three entities given: the first kept at distance 0, the second 5001 m away
\* and dropped with its distance still 0, the third kept with its distance
\* set to 1200.
C12_Witness ==
    /\ pc = "rank_results"
    /\ Len(Given) = 3
    /\ filtered = <<1, 3>>
    /\ DistanceOf(Given[2]) = 5001
    /\ accs[2].distance = 0
    /\ Given[3].distance = 0
    /\ accs[3].distance = 1200

(***************************************************************************)
(* Properties of rank_results                                              *)
(***************************************************************************)

\* 10 + max(0, 5 - distance_km) + 2 per shared tag + 3 for the type + 1 for a
\* name, in thousandths of a point, the distance being in metres.
ExpectedThousandths(acc) ==
    10000
    + (IF acc.distance < 5000 THEN 5000 - acc.distance ELSE 0)
    + 2000 * Cardinality(SharedTags(acc))
    + (IF acc.type = search_request.type THEN 3000 ELSE 0)
    + (IF acc.name = "Unnamed" THEN 0 ELSE 1000)

\* C6: every entity given to rank_results has its score stored as the sum
\* above rounded to hundredths; at distance 0, with the type matched, a name
\* and 2 of 2 requested tags matched, the score is 23.00.
C6_ScoreFormula ==
    pc = "ranked" =>
       \A r \in Range(filtered) :
          /\ accs[r].score = Round2(ExpectedThousandths(accs[r]))
          /\ ( /\ accs[r].distance = 0
               /\ accs[r].type = search_request.type
               /\ accs[r].name # "Unnamed"
               /\ Len(search_request.tags) = 2
               /\ Cardinality(SharedTags(accs[r])) = 2 )
             => accs[r].score = 2300

C6_Witness ==
    /\ pc = "ranked"
    /\ \E r \in Range(filtered) :
          /\ accs[r].distance = 0
          /\ accs[r].type = search_request.type
          /\ accs[r].name # "Unnamed"
          /\ Len(search_request.tags) = 2
          /\ Cardinality(SharedTags(accs[r])) = 2
          /\ accs[r].score = 2300
    /\ \E r \in Range(filtered) :
          /\ Len(accs[r].tags) > Cardinality(Range(accs[r].tags))
          /\ SharedTags(accs[r]) # {}

\* C7: rank_results returns min(5, n) of the n entities it is given, with
\* ranks 1, 2, ... in the returned order and scores that never increase, and
\* no entity left out scores more than a returned one; given none it
\* returns none.
C7_TopFive ==
    pc = "ranked" =>
       /\ Len(ranked) = Min(5, Len(filtered))
       /\ Range(ranked) \subseteq Range(filtered)
       /\ \A i, j \in 1..Len(ranked) : i # j => ranked[i] # ranked[j]
       /\ \A k \in 1..Len(ranked) :
             /\ "rank" \in DOMAIN accs[ranked[k]]
             /\ accs[ranked[k]].rank = k
       /\ \A k \in 1..(Len(ranked) - 1) :
             accs[ranked[k]].score >= accs[ranked[k + 1]].score
       /\ \A out \in Range(filtered) \ Range(ranked) : \A r \in Range(ranked) :
             accs[out].score <= accs[r].score
       /\ filtered = <<>> => ranked = <<>>

\* Six entities of different scores are given (max_results being 10), five
\* come back.
C7_Witness ==
    /\ pc = "ranked"
    /\ search_request.max_results = 10
    /\ Len(filtered) = 6
    /\ Len(ranked) = 5
    /\ accs[ranked[1]].score > accs[ranked[5]].score
    /\ \E out \in Range(filtered) \ Range(ranked) :
          accs[out].score < accs[ranked[5]].score

\* C13: the references being positions in the list normalize_osm_data
\* emitted, of two returned entities of equal score the one emitted earlier
\* has the smaller rank, and an entity left out at the cut that scores the
\* same as a returned one was emitted after it.
C13_TiesKeepEmissionOrder ==
    pc = "ranked" =>
       /\ Increasing(filtered)
       /\ \A a, b \in Range(ranked) :
             (accs[a].score = accs[b].score /\ a < b)
                => accs[a].rank < accs[b].rank
       /\ \A out \in Range(filtered) \ Range(ranked) : \A r \in Range(ranked) :
             accs[out].score = accs[r].score => r < out

\* Six entities kept, the fifth returned and the one left out of equal
\* score, and two returned entities of equal score whose order a sort by
\* score alone would not decide.
C13_Witness ==
    /\ pc = "ranked"
    /\ Len(filtered) = 6
    /\ Len(ranked) = 5
    /\ \E out \in Range(filtered) \ Range(ranked) :
          /\ accs[out].score = accs[ranked[5]].score
          /\ ranked[5] < out
    /\ \E i \in 1..4 :
          /\ accs[ranked[i]].score = accs[ranked[i + 1]].score
          /\ ranked[i] < ranked[i + 1]
    /\ accs[ranked[1]].score > accs[ranked[5]].score

\* C17: after filter_results and then rank_results on the same request,
\* every returned entity scores at least 10.00, and at least 12.00 when the
\* request has tags, a returned entity then sharing a tag with the request.
C17_ScoreFloor ==
    pc = "ranked" =>
       \A r \in Range(ranked) :
          /\ accs[r].score >= 1000
          /\ search_request.tags # <<>> =>
                /\ SharedTags(accs[r]) # {}
                /\ accs[r].score >= 1200

\* With tags requested, a returned entity that shares one tag, is not of the
\* requested type and lies on the boundary: 13.00, of which 2 for the tag
\* and 1 for the name.
C17_Witness ==
    /\ pc = "ranked"
    /\ search_request.tags # <<>>
    /\ \E r \in Range(ranked) :
          /\ Cardinality(SharedTags(accs[r])) = 1
          /\ accs[r].type # search_request.type
          /\ accs[r].distance = search_request.radius
          /\ accs[r].score = 1300

(***************************************************************************)
(* Properties of the submit handler                                        *)
(***************************************************************************)

\* The stage that runs at each position of the handler, and the position it
\* leaves the handler at when it reports no failure.
StageOrder ==
    { <<"form", "clean">>,
      <<"clean", "geocode">>,
      <<"geocode", "normalize_filters">>,
      <<"normalize_filters", "build">>,
      <<"build", "call_search">>,
      <<"call_search", "search">>,
      <<"search", "search">>,
      <<"search", "search_returned">>,
      <<"search_returned", "normalize">>,
      <<"normalize", "filter">>,
      <<"filter", "rank">>,
      <<"rank", "done">> }

\* The positions st.stop() is called at, with what it is called for.
StopPoints ==
    { <<"form", "input">>,
      <<"clean", "clean">>,
      <<"geocode", "geocode">>,
      <<"search_returned", "search">>,
      <<"filter", "filter">> }

Blank(text) == text = <<>> \/ strip(text) = <<>>

\* What the stage that runs at the position pc has just reported, read from
\* the state it leaves: a failure reason, or (for the form) no location, or
\* (for the filter) no entity.
Failed ==
    \/ pc = "form" /\ Blank(location_input')
    \/ pc = "clean" /\
          "error" \in DOMAIN clean_location_input(location_input,
                                                  log'[Len(log')].reply).ret
    \/ pc = "geocode" /\
          "error" \in DOMAIN validate_and_geocode(cleaned_location,
                                                  log'[Len(log')].reply).ret
    \/ pc = "search_returned" /\ "error" \in DOMAIN result
    \/ pc = "filter" /\ filtered' = <<>>

\* C14: every step of a submission is taken by the stage next in the order
\* cleanup, geocoding, filter normalization, request building, retrieval,
\* normalization, filtering, ranking; a stage that reports a failure (or a
\* blank location, or no entity left by the filter) stops the submission,
\* and nothing is done after a stop or after the ranking: no stage runs and
\* the log of outbound calls grows no more.  Outbound calls are made by the
\* cleanup, the geocoding and the retrieval only, and a blank location stops
\* the submission with no outbound call made.
C14_StagesInOrderUntilStop ==
    [][ /\ pc \notin {"stopped", "done"}
        /\ IF Failed
           THEN pc' = "stopped" /\ <<pc, stop'>> \in StopPoints
           ELSE <<pc, pc'>> \in StageOrder /\ stop' = ""
        /\ log' # log => pc \in {"clean", "geocode", "search"}
        /\ (pc = "form" /\ Blank(location_input')) => log' = <<>>
      ]_vars

\* A submission that went through every stage up to the filter, which kept
\* nothing: stopped there, with nothing ranked.
C14_Witness ==
    /\ pc = "stopped"
    /\ stop = "filter"
    /\ ~Blank(location_input)
    /\ log[1].op = "generate_content"
    /\ Len(Posts) = 3
    /\ normalized # <<>>
    /\ filtered = <<>>
    /\ ranked = <<>>

(***************************************************************************)
(* Properties of normalize_filters                                         *)
(***************************************************************************)

FiltersReturned == pc # "normalize_filters"

\* C8: for the ambiance text 'yen tinh, gan bien, xyz' (with its diacritics)
\* the tags are exactly quiet, beachfront, in that order.
C8_QuietBeachfront ==
    (FiltersReturned /\ ambiance_input = QuietBeachXyz)
    => filters.tags = <<"quiet", "beachfront">>

BudgetTiers == {"low", "medium", "high"}
LodgingTypes == {"hotel", "guest_house", "resort", "chalet", "hostel"}
AmbianceVocabulary == {"quiet", "lively", "beachfront", "scenic", "family", "romantic"}

\* text is key in some letter case, with whitespace around it
VariantOf(text, key) ==
    \E before \in 0..Len(text) :
       /\ before + Len(key) <= Len(text)
       /\ \A i \in 1..before : text[i] \in Whitespace
       /\ \A i \in 1..Len(key) : LowerChar(text[before + i]) = key[i]
       /\ \A i \in (before + Len(key) + 1)..Len(text) : text[i] \in Whitespace

\* The value the dictionary gives to the key text is a variant of, or the
\* default when it is a variant of none.
LookupIgnoringCase(items, text, default) ==
    IF \E it \in items : VariantOf(text, it[1])
    THEN (CHOOSE it \in items : VariantOf(text, it[1]))[2]
    ELSE default

\* C9: the budget, the type and the tags are in their vocabularies, the tags
\* without duplicates; a budget or type text that is a dictionary key in any
\* letter case, with any whitespace around it, gives the key's value, and any
\* other text gives medium, respectively guest_house.
C9_ClosedVocabulary ==
    FiltersReturned =>
       /\ filters.budget \in BudgetTiers
       /\ filters.type \in LodgingTypes
       /\ Range(filters.tags) \subseteq AmbianceVocabulary
       /\ \A i, j \in 1..Len(filters.tags) : i # j => filters.tags[i] # filters.tags[j]
       /\ filters.budget = LookupIgnoringCase(budget_map, budget_input, "medium")
       /\ filters.type = LookupIgnoringCase(type_map, type_input, "guest_house")

\* '  cao ' gives high, '???' gives guest_house, 'QUIET,peaceful' gives quiet
\* once.
C9_Witness ==
    /\ pc = "build"
    /\ budget_input = <<" ", " ", "c", "a", "o", " ">>
    /\ type_input = <<"?", "?", "?">>
    /\ ambiance_input = <<"Q", "U", "I", "E", "T", ",", "p", "e", "a", "c", "e", "f", "u", "l">>
    /\ filters = [budget |-> "high", type |-> "guest_house", tags |-> <<"quiet">>]


====
